---- MODULE Spec2Model ----
(***************************************************************************)
(* Single-elimination bracket of mini-tennis-tourney.py: bracket sizing,   *)
(* bracket construction, the per-round winner collection of the Streamlit  *)
(* script, and the round advancer, over the keys of st.session_state.      *)
(***************************************************************************)
EXTENDS Integers, Sequences, FiniteSets, TLC

\* ---------------------------------------------------------------- bounds
\* Policy ranges enforced by the two number inputs of the sidebar.
MinTeams == 8
MaxTeams == 16
MinCourts == 2
MaxCourts == 4

\* Number of outcomes of the random generator that are explored; one seed
\* fixes both random.shuffle calls of the construction.
NumSeeds == 2
\* Largest number of matches of one tournament in which the interface user
\* picks the second-listed team.
MaxSecondPicks == 2
\* Largest entrant count passed to the construction when it is called
\* directly (the smallest is 1).
MaxCoreTeams == 16
\* Arguments of the two sizing functions: -MaxNonPositive..MaxSizerTeams
\* for get_bracket_size, 0..MaxSizerBracket for get_num_rounds.
MaxNonPositive == 2
MaxSizerTeams == 16
MaxSizerBracket == 17
\* Largest number of consecutive runs of the result reporter on one finished
\* tournament.
MaxReportRuns == 2

\* ------------------------------------------------------------- sentinels
None == "None"
BYE == "BYE"
Undetermined == "Undetermined"
KeyError == "KeyError"
IndexError == "IndexError"

Range(f) == {f[x] : x \in DOMAIN f}
Min(a, b) == IF a < b THEN a ELSE b
\* dict.get(key): the value stored under key, None when there is none.
Get(d, key) == IF key \in DOMAIN d THEN d[key] ELSE None

\* ---------------------------------------------------------- Bracket Sizer
RECURSIVE CeilLog2(_)
\* math.ceil(math.log2(n)) for n >= 1: the least k with 2^k >= n.
CeilLog2(n) == IF n <= 1 THEN 0 ELSE 1 + CeilLog2((n + 1) \div 2)

RECURSIVE FloorLog2(_)
\* int(math.log2(b)) for b >= 1: the greatest k with 2^k <= b.
FloorLog2(b) == IF b <= 1 THEN 0 ELSE 1 + FloorLog2(b \div 2)

\* The sizing with the logarithm rounded down instead of up.
get_bracket_size_Floor(num_teams) ==
    IF num_teams < 1 THEN 1 ELSE 2 ^ FloorLog2(num_teams)

get_bracket_size(num_teams) ==
    IF num_teams < 1 THEN 1 ELSE 2 ^ CeilLog2(num_teams)

get_num_rounds(bracket_size_arg) ==
    IF bracket_size_arg < 2 THEN 0 ELSE FloorLog2(bracket_size_arg)

\* -------------------------------------------------------- Bracket Builder
Team(i) == "Team " \o ToString(i)
MatchId(r, k) == "R" \o ToString(r) \o "_M" \o ToString(k)
ByeId(i) == "R1_B" \o ToString(i)

\* random.shuffle: the permutation applied by the call-th shuffle under a
\* given seed (a rotation, reversed when seed + call is odd).
ShuffleIndex(i, len, seed, call) ==
    LET rot == ((i - 1 + (seed - 1) + (call - 1)) % len) + 1
    IN  IF (seed + call) % 2 = 1 THEN len + 1 - rot ELSE rot

shuffle(seq, seed, call) ==
    [i \in 1..Len(seq) |-> seq[ShuffleIndex(i, Len(seq), seed, call)]]

CourtOf(i, courts) == (i % courts) + 1

\* Match ids of round round_index, paired up from the previous round's ids
\* (an unpaired last id is dropped).
RECURSIVE RoundMatchIds(_, _)
RoundMatchIds(r1_match_ids, round_index) ==
    IF round_index = 1 THEN r1_match_ids
    ELSE LET prev == RoundMatchIds(r1_match_ids, round_index - 1)
         IN  [k \in 1..(Len(prev) \div 2) |-> MatchId(round_index, k - 1)]

\* A feed that slides over the previous round one id at a time instead of
\* two.
FeedOf_Sliding(prev_round_match_ids, k) ==
    <<prev_round_match_ids[k], prev_round_match_ids[k + 1]>>

\* The two previous-round ids that feed the k-th match of a round.
FeedOf(prev_round_match_ids, k) ==
    <<prev_round_match_ids[2 * k - 1], prev_round_match_ids[2 * k]>>

RECURSIVE FeedUpTo(_, _)
FeedUpTo(r1_match_ids, round_index) ==
    IF round_index < 2 THEN <<>>
    ELSE LET prev == RoundMatchIds(r1_match_ids, round_index - 1)
             cur  == RoundMatchIds(r1_match_ids, round_index)
         IN  FeedUpTo(r1_match_ids, round_index - 1) @@
             [m \in Range(cur) |->
                 FeedOf(prev, CHOOSE k \in 1..Len(cur) : cur[k] = m)]

\* teams_copy[:byes] short of its last entrant.
TeamsWithByes_OneShort(tms, nbyes) ==
    SubSeq(tms, 1, Min(nbyes - 1, Len(tms)))

\* The byes handed to the last entrants of the shuffled order.
TeamsWithByes_FromEnd(tms, nbyes) ==
    SubSeq(tms, Len(tms) - Min(nbyes, Len(tms)) + 1, Len(tms))

\* teams_copy[:byes] and teams_copy[byes:]
TeamsWithByes(tms, nbyes) == SubSeq(tms, 1, Min(nbyes, Len(tms)))
TeamsPlayingR1(tms, nbyes) == SubSeq(tms, nbyes + 1, Len(tms))

\* Everything initialize_bracket_structure_with_courts computes, as one
\* record; raised is the exception that ends the call early, if any.
Build(num_teams, courts, seed) ==
    LET bs      == get_bracket_size(num_teams)
        nr      == get_num_rounds(bs)
        nbyes   == bs - num_teams
        tms     == shuffle([i \in 1..num_teams |-> Team(i)], seed, 1)
        withbye == TeamsWithByes(tms, nbyes)
        playing == TeamsPlayingR1(tms, nbyes)
        nmatch  == Len(playing) \div 2
        oddleft == Len(playing) % 2 = 1
        mids    == [k \in 1..nmatch |-> MatchId(1, k - 1)]
        bids    == [i \in 1..Len(withbye) |-> ByeId(i - 1)]
        r1ids   == mids \o bids
        mdm     == [m \in Range(mids) |->
                      LET k == CHOOSE k \in 1..nmatch : mids[k] = m
                      IN  [teams |-> <<playing[2 * k - 1], playing[2 * k]>>,
                           winner |-> None]]
        mdb     == [m \in Range(bids) |->
                      LET i == CHOOSE i \in 1..Len(bids) : bids[i] = m
                      IN  [teams |-> <<withbye[i], BYE>>,
                           winner |-> withbye[i]]]
        mitems  == [k \in 1..nmatch |->
                      [type |-> "match", match_id |-> mids[k],
                       teams |-> <<playing[2 * k - 1], playing[2 * k]>>]]
        bitems  == [i \in 1..Len(bids) |->
                      [type |-> "bye", match_id |-> bids[i],
                       team |-> withbye[i]]]
        shown   == shuffle(mitems \o bitems, seed, 2)
        items   == [i \in 1..Len(shown) |->
                      shown[i] @@ [court |-> CourtOf(i - 1, courts)]]
        later   == UNION {Range(RoundMatchIds(r1ids, r)) : r \in 2..nr}
        mdl     == [m \in later |->
                      [teams |-> <<None, None>>, winner |-> None]]
        rids    == [r \in 0..nr |->
                      IF r = 0 THEN <<>> ELSE RoundMatchIds(r1ids, r)]
    IN  IF oddleft
        THEN [raised |-> IndexError, teams |-> tms, bracket_size |-> bs,
              num_rounds |-> nr, byes |-> nbyes, match_details |-> mdm,
              rounds_match_ids |-> [r \in 0..nr |-> <<>>],
              next_round_feed |-> <<>>]
        ELSE IF nr < 1
        THEN [raised |-> IndexError, teams |-> tms, bracket_size |-> bs,
              num_rounds |-> nr, byes |-> nbyes,
              match_details |-> mdm @@ mdb,
              rounds_match_ids |-> [r \in 0..nr |-> <<>>],
              next_round_feed |-> <<>>]
        ELSE [raised |-> None, teams |-> tms, bracket_size |-> bs,
              num_rounds |-> nr, byes |-> nbyes,
              match_details |-> mdm @@ mdb @@ mdl,
              rounds_match_ids |-> rids,
              next_round_feed |-> FeedUpTo(r1ids, nr),
              current_round_items |-> items,
              final_match_id |->
                  IF nr >= 1 /\ Len(rids[nr]) = 1 THEN rids[nr][1] ELSE None]

\* ----------------------------------------------------------------- state
VARIABLES
    tournament_started, tournament_finished, final_winner,
    round_winners_in_progress, teams, bracket_size, num_rounds, byes,
    num_courts, match_details, rounds_match_ids, next_round_feed,
    current_round_items, current_round_index, final_match_id,
    exception,  \* exception that ended the last script run or call, or None
    errors,     \* match ids reported through st.error by the last advance
    sizer,      \* arguments and results of the sizing functions
    report      \* elements handed to the PDF document by the last script
                \* run, and the number of consecutive runs that built them

session == <<tournament_started, tournament_finished, final_winner,
             round_winners_in_progress, teams, bracket_size, num_rounds,
             byes, num_courts, match_details, rounds_match_ids,
             next_round_feed, current_round_items, current_round_index,
             final_match_id>>
vars == <<session, exception, errors, sizer, report>>

NoReport == [runs |-> 0, elements |-> <<>>]

SizerIdle == [pc |-> "idle", num_teams |-> 0, arg |-> 0,
              bracket_size |-> 0, num_rounds |-> 0, arg_rounds |-> 0]

\* The defaults the script installs when 'initialized' is not in the
\* session state.
SessionDefaults ==
    /\ tournament_started = FALSE
    /\ tournament_finished = FALSE
    /\ final_winner = None
    /\ round_winners_in_progress = <<>>
    /\ teams = <<>>
    /\ bracket_size = 0
    /\ num_rounds = 0
    /\ byes = 0
    /\ num_courts = 0
    /\ match_details = <<>>
    /\ rounds_match_ids = <<>>
    /\ next_round_feed = <<>>
    /\ current_round_items = <<>>
    /\ current_round_index = 0
    /\ final_match_id = None

Init ==
    /\ SessionDefaults
    /\ exception = None
    /\ errors = {}
    /\ sizer = SizerIdle
    /\ report = NoReport

\* ------------------------------------------------- winner collection (UI)
\* display_current_round over the display list and the selections kept in
\* round_winners_in_progress.  Reading item['teams'] raises KeyError on an
\* item that has no such key, which ends the script run.
display_current_round(items, in_progress) ==
    LET idx        == 1..Len(items)
        raising    == {i \in idx : "teams" \notin DOMAIN items[i]}
        playable(i) == /\ items[i].type = "match"
                       /\ items[i].teams[1] # None
                       /\ items[i].teams[2] # None
        radio(i)   == IF /\ items[i].match_id \in DOMAIN in_progress
                         /\ in_progress[items[i].match_id] \in Range(items[i].teams)
                      THEN in_progress[items[i].match_id] ELSE None
        byeidx     == {i \in idx \ raising : items[i].type = "bye"}
        picked     == {i \in idx \ raising : playable(i) /\ radio(i) # None}
    IN  [raised |-> IF raising = {} THEN None ELSE KeyError,
         current_round_winners |->
             [m \in {items[i].match_id : i \in byeidx \cup picked} |->
                 LET i == CHOOSE i \in byeidx \cup picked : items[i].match_id = m
                 IN  IF i \in byeidx THEN items[i].teams[1] ELSE radio(i)],
         all_winners_selected |->
             \A i \in idx \ raising :
                 items[i].type = "match" => (playable(i) /\ radio(i) # None)]

\* The items of the display list whose radio button is rendered before the
\* script run ends.
Rendered(items) ==
    {i \in 1..Len(items) :
        /\ \A j \in 1..i : "teams" \in DOMAIN items[j]
        /\ items[i].type = "match"
        /\ items[i].teams[1] # None
        /\ items[i].teams[2] # None}

num_actual_matches_in_round(items) ==
    Cardinality({i \in 1..Len(items) : items[i].type = "match"})

\* ---------------------------------------------------------- Round Advancer
\* Every listed match stamped with the winner of one and the same match.
StampWinners_Stale(md, current_round_winners) ==
    [m \in DOMAIN md |->
        IF m \in DOMAIN current_round_winners
        THEN [md[m] EXCEPT !.winner =
                 current_round_winners[CHOOSE k \in DOMAIN current_round_winners : TRUE]]
        ELSE md[m]]

\* The winner of every match overwritten, with None where none is supplied.
StampWinners_Rebuilt(md, current_round_winners) ==
    [m \in DOMAIN md |-> [md[m] EXCEPT !.winner = Get(current_round_winners, m)]]

StampWinners(md, current_round_winners) ==
    [m \in DOMAIN md |->
        IF m \in DOMAIN current_round_winners
        THEN [md[m] EXCEPT !.winner = current_round_winners[m]]
        ELSE md[m]]

\* A feed that carries the beaten occupant forward instead of the winner.
FeedWinner_Loser(md, feed_id) ==
    IF feed_id \notin DOMAIN md THEN None
    ELSE IF md[feed_id].winner = md[feed_id].teams[1]
         THEN md[feed_id].teams[2] ELSE md[feed_id].teams[1]

\* match_details.get(feed_id, {}).get('winner')
FeedWinner(md, feed_id) ==
    IF feed_id \in DOMAIN md THEN md[feed_id].winner ELSE None

FinalWinner(md, fid) ==
    IF fid # None /\ fid \in DOMAIN md THEN md[fid].winner ELSE Undetermined

\* The two feed winners in the opposite slot order.
NextRoundTeams_Swapped(md, feed, m) ==
    <<FeedWinner(md, feed[m][2]), FeedWinner(md, feed[m][1])>>

NextRoundTeams(md, feed, m) ==
    <<FeedWinner(md, feed[m][1]), FeedWinner(md, feed[m][2])>>

NextRoundItem(md, feed, m) ==
    [type |-> "match", match_id |-> m,
     teams |-> NextRoundTeams(md, feed, m), winner |-> None]

\* The finish test taken one round early.
TournamentOver_Early(next_round_index, nr) == next_round_index >= nr

\* "if next_round_index > st.session_state.num_rounds"
TournamentOver(next_round_index, nr) == next_round_index > nr

advance_to_next_round_structured(current_round_winners) ==
    LET stamped  == StampWinners(match_details, current_round_winners)
        next_round_index == current_round_index + 1
    IN  /\ round_winners_in_progress' = <<>>
        /\ current_round_index' = next_round_index
        /\ UNCHANGED <<tournament_started, teams, bracket_size, num_rounds,
                       byes, num_courts, rounds_match_ids, next_round_feed,
                       final_match_id>>
        /\ IF TournamentOver(next_round_index, num_rounds)
           THEN /\ tournament_finished' = TRUE
                /\ match_details' = stamped
                /\ final_winner' = FinalWinner(stamped, final_match_id)
                /\ errors' = {}
                /\ UNCHANGED current_round_items
           ELSE LET ids == rounds_match_ids[next_round_index]
                    fed == SelectSeq(ids, LAMBDA m : m \in DOMAIN next_round_feed)
                IN  /\ match_details' =
                           [m \in DOMAIN stamped |->
                               IF m \in Range(fed)
                               THEN [stamped[m] EXCEPT
                                       !.teams = NextRoundTeams(stamped, next_round_feed, m)]
                               ELSE stamped[m]]
                    /\ current_round_items' =
                           [i \in 1..Len(fed) |->
                               NextRoundItem(stamped, next_round_feed, fed[i])]
                    /\ errors' = Range(ids) \ DOMAIN next_round_feed
                    /\ tournament_finished' = FALSE
                    /\ UNCHANGED final_winner

\* ------------------------------------------------------------ construction
initialize_bracket_structure_with_courts(num_teams, courts, seed) ==
    LET b == Build(num_teams, courts, seed)
    IN  /\ teams' = b.teams
        /\ bracket_size' = b.bracket_size
        /\ num_rounds' = b.num_rounds
        /\ byes' = b.byes
        /\ num_courts' = courts
        /\ match_details' = b.match_details
        /\ rounds_match_ids' = b.rounds_match_ids
        /\ next_round_feed' = b.next_round_feed
        /\ errors' = {}
        /\ IF b.raised = None
           THEN /\ current_round_items' = b.current_round_items
                /\ current_round_index' = 1
                /\ tournament_started' = TRUE
                /\ tournament_finished' = FALSE
                /\ final_winner' = None
                /\ round_winners_in_progress' = <<>>
                /\ final_match_id' = b.final_match_id
           ELSE UNCHANGED <<current_round_items, current_round_index,
                            tournament_started, tournament_finished,
                            final_winner, round_winners_in_progress,
                            final_match_id>>

\* --------------------------------------------------------- Result Reporter
Element(style, text) == [style |-> style, text |-> text]
Spacer == Element("Spacer", "")

RECURSIVE Join(_, _)
\* sep.join(seq)
Join(sep, seq) ==
    IF seq = <<>> THEN ""
    ELSE IF Len(seq) = 1 THEN seq[1]
    ELSE seq[1] \o sep \o Join(sep, Tail(seq))

\* A match line that leaves the winner out.
ReportMatchLine_NoWinner(md, m) ==
    IF m \notin DOMAIN md
    THEN Element("Normal", "Details missing for match " \o m \o ".")
    ELSE IF md[m].teams[2] = BYE
    THEN Element("Normal", md[m].teams[1] \o " gets a BYE")
    ELSE Element("Normal", md[m].teams[1] \o " vs " \o md[m].teams[2])

\* The line of one match of the table.
ReportMatchLine(md, m) ==
    IF m \notin DOMAIN md
    THEN Element("Normal", "Details missing for match " \o m \o ".")
    ELSE IF md[m].teams[2] = BYE
    THEN Element("Normal", md[m].teams[1] \o " gets a BYE")
    ELSE Element("Normal",
             md[m].teams[1] \o " vs " \o md[m].teams[2] \o
             (IF md[m].winner # None
              THEN " - Winner: " \o md[m].winner ELSE ""))

\* The elements of one round: heading, one line per match id in the order
\* of the round's id list, spacer.
ReportRound(rids, md, r_index) ==
    LET round_match_ids == IF r_index \in DOMAIN rids THEN rids[r_index] ELSE <<>>
        heading == Element("h2", "Round " \o ToString(r_index) \o " Results:")
    IN  IF round_match_ids = <<>>
        THEN <<heading, Element("Normal", "No matches in this round.")>>
        ELSE <<heading>> \o
             [i \in 1..Len(round_match_ids) |->
                 ReportMatchLine(md, round_match_ids[i])] \o
             <<Spacer>>

RECURSIVE ReportRounds(_, _, _)
\* The elements of rounds 1..r_index.
ReportRounds(rids, md, r_index) ==
    IF r_index < 1 THEN <<>>
    ELSE ReportRounds(rids, md, r_index - 1) \o ReportRound(rids, md, r_index)

\* The list of elements create_tournament_pdf_structured hands to
\* doc.build; it reads the session state and writes none of it.
create_tournament_pdf_structured(tms, nr, rids, md, finished, champion) ==
    <<Element("h1", "Tennis Tournament Results"), Spacer,
      Element("h2", "Initial Teams:"), Element("Normal", Join(", ", tms)),
      Spacer>> \o
    (IF nr >= 1 THEN ReportRounds(rids, md, nr)
     ELSE <<Element("Normal", "Tournament rounds data is incomplete.")>>) \o
    (IF finished /\ champion # None
     THEN <<Element("h2", "Tournament Champion:"), Element("Normal", champion)>>
     ELSE <<>>)

\* --------------------------------------------------- the Streamlit script
\* Number of matches in which the second-listed team is the recorded or
\* currently selected winner.
SecondPicks(md, in_progress) ==
    Cardinality({m \in DOMAIN md :
        \/ md[m].winner # None /\ md[m].winner = md[m].teams[2]
        \/ m \in DOMAIN in_progress /\ in_progress[m] = md[m].teams[2]})

\* "Start Tournament": construction, then the rerun shows round 1.
Start ==
    /\ ~tournament_started
    /\ \E num_teams \in MinTeams..MaxTeams, courts \in MinCourts..MaxCourts,
          seed \in 1..NumSeeds :
          /\ initialize_bracket_structure_with_courts(num_teams, courts, seed)
          /\ exception' =
                 IF Build(num_teams, courts, seed).raised # None
                 THEN Build(num_teams, courts, seed).raised
                 ELSE display_current_round(current_round_items',
                          round_winners_in_progress').raised
    /\ report' = NoReport
    /\ UNCHANGED sizer

\* A click on one radio button of the current round; the rerun stores the
\* selection in round_winners_in_progress.
SelectWinner ==
    /\ tournament_started /\ ~tournament_finished
    /\ \E i \in Rendered(current_round_items), k \in 1..2 :
          LET m == current_round_items[i].match_id
              w == current_round_items[i].teams[k]
              picked == (m :> w) @@ round_winners_in_progress
          IN  /\ Get(round_winners_in_progress, m) # w
              /\ SecondPicks(match_details, picked) <= MaxSecondPicks
              /\ round_winners_in_progress' = picked
    /\ exception' = display_current_round(current_round_items,
                        round_winners_in_progress').raised
    /\ UNCHANGED <<tournament_started, tournament_finished, final_winner,
                   teams, bracket_size, num_rounds, byes, num_courts,
                   match_details, rounds_match_ids, next_round_feed,
                   current_round_items, current_round_index,
                   final_match_id, errors, sizer>>
    /\ report' = NoReport

\* The button offered whether or not every match has a selection.
Advance_Unchecked ==
    LET shown == display_current_round(current_round_items,
                                       round_winners_in_progress)
    IN  /\ tournament_started /\ ~tournament_finished
        /\ shown.raised = None
        /\ num_actual_matches_in_round(current_round_items) > 0
        /\ advance_to_next_round_structured(shown.current_round_winners)
        /\ exception' =
               IF tournament_finished' THEN None
               ELSE display_current_round(current_round_items',
                        round_winners_in_progress').raised
        /\ report' =
               IF tournament_finished'
               THEN [runs |-> 1,
                     elements |-> create_tournament_pdf_structured(
                         teams', num_rounds', rounds_match_ids',
                         match_details', tournament_finished', final_winner')]
               ELSE NoReport
        /\ UNCHANGED sizer

\* "Advance to Next Round", offered when the collection completed with a
\* winner for every match of the round.
Advance ==
    LET shown == display_current_round(current_round_items,
                                       round_winners_in_progress)
    IN  /\ tournament_started /\ ~tournament_finished
        /\ shown.raised = None
        /\ shown.all_winners_selected
        /\ num_actual_matches_in_round(current_round_items) > 0
        /\ advance_to_next_round_structured(shown.current_round_winners)
        /\ exception' =
               IF tournament_finished' THEN None
               ELSE display_current_round(current_round_items',
                        round_winners_in_progress').raised
        /\ report' =
               IF tournament_finished'
               THEN [runs |-> 1,
                     elements |-> create_tournament_pdf_structured(
                         teams', num_rounds', rounds_match_ids',
                         match_details', tournament_finished', final_winner')]
               ELSE NoReport
        /\ UNCHANGED sizer

\* "Reset Tournament": every key is deleted and the rerun reinstalls the
\* defaults.  The button is at the end of the script, so it is rendered
\* only by a run that no exception ended.
Reset ==
    /\ (tournament_started \/ tournament_finished)
    /\ exception = None
    /\ tournament_started' = FALSE
    /\ tournament_finished' = FALSE
    /\ final_winner' = None
    /\ round_winners_in_progress' = <<>>
    /\ teams' = <<>>
    /\ bracket_size' = 0
    /\ num_rounds' = 0
    /\ byes' = 0
    /\ num_courts' = 0
    /\ match_details' = <<>>
    /\ rounds_match_ids' = <<>>
    /\ next_round_feed' = <<>>
    /\ current_round_items' = <<>>
    /\ current_round_index' = 0
    /\ final_match_id' = None
    /\ exception' = None
    /\ errors' = {}
    /\ report' = NoReport
    /\ UNCHANGED sizer

\* A rerun of the script on a finished tournament (a click on the download
\* button): the result reporter builds the document again.
Report ==
    /\ tournament_finished
    /\ report.runs < MaxReportRuns
    /\ report' = [runs |-> report.runs + 1,
                  elements |-> create_tournament_pdf_structured(
                      teams, num_rounds, rounds_match_ids, match_details,
                      tournament_finished, final_winner)]
    /\ UNCHANGED <<session, exception, errors, sizer>>

Next == Start \/ SelectWinner \/ Advance \/ Reset \/ Report

Spec == Init /\ [][Next]_vars

\* ------------------------------------------- the core, called directly
\* Winner mappings handed to the advancer by a direct caller, one per kind:
\* the first occupant of every match of the round, the second occupant (the
\* entrant, for a bye), the first occupants with an outsider for the first
\* match, the first occupants with no entry for the first match, and the
\* empty mapping.
CoreInputKinds == {"first", "second", "foreign", "partial", "empty"}

Outsider(md, m) ==
    LET out == {i \in 1..Len(teams) : teams[i] \notin Range(md[m].teams)}
    IN  IF out = {} THEN "Nobody"
        ELSE teams[CHOOSE i \in out : \A j \in out : i <= j]

CoreWinners(kind) ==
    LET ids     == rounds_match_ids[current_round_index]
        first(m) == match_details[m].teams[1]
        second(m) == IF match_details[m].teams[2] = BYE
                     THEN match_details[m].teams[1]
                     ELSE match_details[m].teams[2]
    IN  CASE kind = "first"   -> [m \in Range(ids) |-> first(m)]
          [] kind = "second"  -> [m \in Range(ids) |-> second(m)]
          [] kind = "foreign" ->
                 [m \in Range(ids) |->
                     IF m = ids[1] THEN Outsider(match_details, m) ELSE first(m)]
          [] kind = "partial" -> [m \in Range(ids) \ {ids[1]} |-> first(m)]
          [] kind = "empty"   -> <<>>

CoreInitialize ==
    /\ ~tournament_started
    /\ \E num_teams \in 1..MaxCoreTeams, courts \in MinCourts..MaxCourts,
          seed \in 1..NumSeeds :
          /\ initialize_bracket_structure_with_courts(num_teams, courts, seed)
          /\ exception' = Build(num_teams, courts, seed).raised
    /\ UNCHANGED <<sizer, report>>

CoreAdvance ==
    /\ tournament_started /\ ~tournament_finished
    /\ \E kind \in CoreInputKinds :
          advance_to_next_round_structured(CoreWinners(kind))
    /\ exception' = None
    /\ UNCHANGED <<sizer, report>>

CoreNext == CoreInitialize \/ CoreAdvance

SpecCore == Init /\ [][CoreNext]_vars

\* ------------------- the core, called directly with well-formed winners
\* Winner mappings that give every match id of the current round one of
\* its occupants (the entrant, for a bye): all first, all second, or first
\* and second in turn along the round's id list.
CoreValidKinds == {"first", "second", "alternate"}

CoreValidWinners(kind) ==
    LET ids == rounds_match_ids[current_round_index]
        pick(k) ==
            LET t == match_details[ids[k]].teams
                j == CASE kind = "first"  -> 1
                       [] kind = "second" -> 2
                       [] kind = "alternate" -> 2 - (k % 2)
            IN  IF t[j] = BYE THEN t[1] ELSE t[j]
    IN  [m \in Range(ids) |-> pick(CHOOSE k \in 1..Len(ids) : ids[k] = m)]

CoreAdvanceValid ==
    /\ tournament_started /\ ~tournament_finished
    /\ \E kind \in CoreValidKinds :
          advance_to_next_round_structured(CoreValidWinners(kind))
    /\ exception' = None
    /\ UNCHANGED <<sizer, report>>

CoreValidNext == CoreInitialize \/ CoreAdvanceValid

SpecCoreValid == Init /\ [][CoreValidNext]_vars

\* ------------------------------------------- the sizing functions alone
SizerInit ==
    /\ SessionDefaults
    /\ exception = None
    /\ errors = {}
    /\ report = NoReport
    /\ sizer \in [pc : {"start"},
                  num_teams : (0 - MaxNonPositive)..MaxSizerTeams,
                  arg : 0..MaxSizerBracket,
                  bracket_size : {0}, num_rounds : {0}, arg_rounds : {0}]

SizeBracket ==
    /\ sizer.pc = "start"
    /\ sizer' = [sizer EXCEPT !.pc = "sized",
                              !.bracket_size = get_bracket_size(sizer.num_teams)]
    /\ UNCHANGED <<session, exception, errors, report>>

CountRounds ==
    /\ sizer.pc = "sized"
    /\ sizer' = [sizer EXCEPT !.pc = "done",
                              !.num_rounds = get_num_rounds(sizer.bracket_size),
                              !.arg_rounds = get_num_rounds(sizer.arg)]
    /\ UNCHANGED <<session, exception, errors, report>>

SizerNext == SizeBracket \/ CountRounds

SpecSizer == SizerInit /\ [][SizerNext]_vars

\* ================================================================ claims
RECURSIVE IsPowerOfTwo(_)
IsPowerOfTwo(b) ==
    b >= 1 /\ (b = 1 \/ (b % 2 = 0 /\ IsPowerOfTwo(b \div 2)))
FinalRound == rounds_match_ids[num_rounds]
ItemIndexes == 1..Len(current_round_items)
Occupants(m) == Range(match_details[m].teams)
IsByeRecord(m) == match_details[m].teams[2] = BYE

\* C1: once the tournament is finished, the champion is an occupant of the
\* designated final match, is one of the entrants, and is the recorded
\* winner of every match it occupied: no beaten team is the champion.
ChampionCameThroughItsBranch ==
    tournament_finished =>
        /\ final_match_id \in DOMAIN match_details
        /\ final_winner \in Occupants(final_match_id)
        /\ final_winner \in Range(teams)
        /\ \A m \in DOMAIN match_details :
               final_winner \in Occupants(m) =>
                   match_details[m].winner = final_winner

ChampionOfSixteenSecondInFinal ==
    /\ tournament_finished
    /\ bracket_size = 16
    /\ final_winner = match_details[final_match_id].teams[2]

\* C2: for every entrant count of the policy range, every round of a started
\* and unfinished tournament completes its winner collection and offers a
\* selection for each of its matches, so that selecting and advancing leads
\* to Finished after num_rounds advances; no round is stuck or aborted.
NoRoundStuckOrAborted ==
    /\ (tournament_started /\ ~tournament_finished) =>
           /\ exception = None
           /\ current_round_index \in 1..num_rounds
           /\ num_actual_matches_in_round(current_round_items) > 0
           /\ Cardinality(Rendered(current_round_items)) =
                  num_actual_matches_in_round(current_round_items)
    /\ tournament_finished =>
           /\ current_round_index = num_rounds + 1
           /\ final_winner \in Range(teams)

\* C3: the advancer never records as a match's winner a value that is not
\* one of the match's two occupants.
CoreNeverStampsOutsider ==
    \A m \in DOMAIN match_details :
        match_details[m].winner # None =>
            match_details[m].winner \in Occupants(m)

\* C4: no match of a round after the first is on display with an unresolved
\* slot unless the advancer reported an error.
UnresolvedFeedIsReported ==
    (tournament_started /\ current_round_index >= 2) =>
        \A i \in ItemIndexes :
            None \in Range(current_round_items[i].teams) => errors # {}

\* C5: after construction every match of a round r >= 2 has two feed ids,
\* both of round r - 1, every id of round r - 1 is a feed exactly once, round
\* r holds bracket_size / 2^r ids, and the last round's single id is the
\* designated final.
FeedsFormBinaryTree ==
    tournament_started =>
        /\ \A r \in 1..num_rounds :
               /\ Len(rounds_match_ids[r]) * (2 ^ r) = bracket_size
               /\ Cardinality(Range(rounds_match_ids[r])) = Len(rounds_match_ids[r])
        /\ \A r \in 2..num_rounds :
               /\ \A m \in Range(rounds_match_ids[r]) :
                      /\ m \in DOMAIN next_round_feed
                      /\ Len(next_round_feed[m]) = 2
                      /\ Range(next_round_feed[m]) \subseteq Range(rounds_match_ids[r - 1])
               /\ \A p \in Range(rounds_match_ids[r - 1]) :
                      Cardinality({<<m, j>> \in Range(rounds_match_ids[r]) \X {1, 2} :
                                      next_round_feed[m][j] = p}) = 1
        /\ DOMAIN next_round_feed =
               UNION {Range(rounds_match_ids[r]) : r \in 2..num_rounds}
        /\ FinalRound = <<final_match_id>>

BuiltWithByesAndFourRounds ==
    /\ tournament_started
    /\ current_round_index = 1
    /\ byes > 0
    /\ num_rounds = 4
    /\ Len(next_round_feed[final_match_id]) = 2

\* C6: get_bracket_size(n) is 1 for n < 1 and otherwise the smallest power
\* of two >= n (8 -> 8, 9 -> 16, 16 -> 16); get_num_rounds(b) is 0 for b < 2
\* and otherwise the k with 2^k = b.
SizerIsNextPowerOfTwo ==
    /\ sizer.pc \in {"sized", "done"} =>
           /\ sizer.num_teams < 1 => sizer.bracket_size = 1
           /\ sizer.num_teams >= 1 =>
                  /\ IsPowerOfTwo(sizer.bracket_size)
                  /\ sizer.bracket_size >= sizer.num_teams
                  /\ 2 * sizer.num_teams > sizer.bracket_size
           /\ sizer.num_teams = 8 => sizer.bracket_size = 8
           /\ sizer.num_teams = 9 => sizer.bracket_size = 16
           /\ sizer.num_teams = 16 => sizer.bracket_size = 16
    /\ sizer.pc = "done" =>
           /\ sizer.bracket_size < 2 => sizer.num_rounds = 0
           /\ sizer.bracket_size >= 2 => 2 ^ sizer.num_rounds = sizer.bracket_size
           /\ sizer.arg < 2 => sizer.arg_rounds = 0
           /\ (sizer.arg >= 2 /\ IsPowerOfTwo(sizer.arg)) =>
                  2 ^ sizer.arg_rounds = sizer.arg

SizedNineToSixteen ==
    /\ sizer.pc = "done"
    /\ sizer.num_teams = 9
    /\ sizer.bracket_size = 16
    /\ sizer.num_rounds = 4
    /\ sizer.arg = 8
    /\ sizer.arg_rounds = 3

\* C7: after construction byes = bracket_size - n with 0 <= byes <=
\* bracket_size / 2, round 1 holds byes bye records and (n - byes) / 2 true
\* matches, and bracket_size / 2 match ids in all (n = 8: 4 matches and no
\* bye; n = 9: 1 match and 7 byes).
RoundOneAbsorbsByes ==
    tournament_started =>
        LET n       == Len(teams)
            r1      == Range(rounds_match_ids[1])
            byerecs == {m \in r1 : IsByeRecord(m)}
            matches == {m \in r1 : ~IsByeRecord(m)}
        IN  /\ byes = bracket_size - n
            /\ byes >= 0
            /\ 2 * byes <= bracket_size
            /\ Cardinality(byerecs) = byes
            /\ 2 * Cardinality(matches) = n - byes
            /\ 2 * Len(rounds_match_ids[1]) = bracket_size
            /\ Cardinality(r1) = Len(rounds_match_ids[1])
            /\ n = 8 => Cardinality(matches) = 4 /\ byes = 0
            /\ n = 9 => Cardinality(matches) = 1 /\ byes = 7

BuiltNineWithSevenByes ==
    /\ tournament_started
    /\ Len(teams) = 9
    /\ byes = 7
    /\ Cardinality({m \in Range(rounds_match_ids[1]) : IsByeRecord(m)}) = 7

\* C8: in every round each item of the display list carries the court
\* (display position mod num_courts) + 1, a number in 1..num_courts.
EveryItemHasItsCourt ==
    tournament_started =>
        \A i \in ItemIndexes :
            /\ "court" \in DOMAIN current_round_items[i]
            /\ current_round_items[i].court \in 1..num_courts
            /\ current_round_items[i].court = ((i - 1) % num_courts) + 1

\* C9: a bye record's winner is its entrant from construction on, and the
\* round-1 winner collection completes on a display list that holds byes,
\* reporting each bye's entrant as the winner of its match id.
ByesCollectedWithoutChoice ==
    (tournament_started /\ current_round_index = 1) =>
        LET shown == display_current_round(current_round_items,
                                           round_winners_in_progress)
        IN  \A m \in Range(rounds_match_ids[1]) :
                IsByeRecord(m) =>
                    /\ match_details[m].winner = match_details[m].teams[1]
                    /\ exception = None
                    /\ shown.raised = None
                    /\ m \in DOMAIN shown.current_round_winners
                    /\ shown.current_round_winners[m] = match_details[m].teams[1]

\* C10: in the Finished state the champion is never empty: when the final
\* match id or that match's winner is missing it is "Undetermined".
ChampionNeverEmpty ==
    tournament_finished =>
        /\ final_winner # None
        /\ (\/ final_match_id \notin DOMAIN match_details
            \/ match_details[final_match_id].winner = None)
               => final_winner = Undetermined

\* C11: construction never raises for an entrant count >= 1; with one
\* entrant it finishes with no designated final match.
ConstructionNeverRaises ==
    teams # <<>> =>
        /\ exception = None
        /\ tournament_started
        /\ num_rounds = 0 => final_match_id = None

\* C12: while a true match of the current round has no selection, Advance
\* is not enabled, and no step of the tournament changes the round pointer,
\* a match record or the finished flag (a Reset ends the tournament and is
\* not such a step).
RoundIncomplete ==
    /\ tournament_started /\ ~tournament_finished
    /\ \E i \in ItemIndexes :
           /\ current_round_items[i].type = "match"
           /\ current_round_items[i].match_id \notin DOMAIN round_winners_in_progress

AdvanceOnlyWhenRoundComplete ==
    /\ [](RoundIncomplete => ~ENABLED Advance)
    /\ [][(RoundIncomplete /\ tournament_started') =>
             UNCHANGED <<current_round_index, match_details,
                         tournament_finished, final_winner>>]_vars

PartlySelectedSecondRound ==
    /\ RoundIncomplete
    /\ current_round_index = 2
    /\ round_winners_in_progress # <<>>

\* C13: in a tournament driven through the interface every recorded winner
\* is an entrant and an occupant of its match, and a bye record's winner is
\* its entrant, never the BYE placeholder.
InterfaceWinnersAreOccupants ==
    \A m \in DOMAIN match_details :
        LET rec == match_details[m]
        IN  rec.winner # None =>
                /\ rec.winner = rec.teams[1] \/ rec.winner = rec.teams[2]
                /\ rec.winner # BYE
                /\ rec.winner \in Range(teams)
                /\ rec.teams[2] = BYE => rec.winner = rec.teams[1]

EveryMatchDecided ==
    /\ tournament_finished
    /\ \A m \in DOMAIN match_details : match_details[m].winner # None
    /\ \E m \in DOMAIN match_details :
           match_details[m].winner = match_details[m].teams[2]

\* C14: Reset is available in every started or finished state, and a
\* session that is not started holds nothing but the defaults.
ResetAvailableAndDiscardsAll ==
    /\ (tournament_started \/ tournament_finished) => ENABLED Reset
    /\ ~tournament_started => SessionDefaults

\* C15: on a finished tournament the reporter's text lines are the entrant
\* list in shuffled order, then one line per match id of every round in the
\* order of the round's id list (bye line, or 'A vs B' with the winner
\* appended when set), then the champion; a further run changes no session
\* state and builds the same elements.
ExpectedMatchLine(m) ==
    LET rec == match_details[m]
    IN  IF rec.teams[2] = BYE THEN rec.teams[1] \o " gets a BYE"
        ELSE IF rec.winner = None THEN rec.teams[1] \o " vs " \o rec.teams[2]
        ELSE rec.teams[1] \o " vs " \o rec.teams[2] \o " - Winner: " \o rec.winner

RECURSIVE ExpectedRoundLines(_)
ExpectedRoundLines(r) ==
    IF r < 1 THEN <<>>
    ELSE ExpectedRoundLines(r - 1) \o
         [i \in 1..Len(rounds_match_ids[r]) |->
             ExpectedMatchLine(rounds_match_ids[r][i])]

TextLines(elements) ==
    LET normal == SelectSeq(elements, LAMBDA e : e.style = "Normal")
    IN  [i \in 1..Len(normal) |-> normal[i].text]

ReportIsReproducible ==
    /\ [](report.runs >= 1 =>
             TextLines(report.elements) =
                 <<Join(", ", teams)>> \o ExpectedRoundLines(num_rounds) \o
                 <<final_winner>>)
    /\ [][(report.runs >= 1 /\ report'.runs = report.runs + 1) =>
             /\ report'.elements = report.elements
             /\ UNCHANGED session]_vars

ReportedTwice ==
    /\ tournament_finished
    /\ report.runs = 2
    /\ Len(report.elements) > Len(teams)

\* C16: after a transition into round r + 1 the display list is the id list
\* of round r + 1 in order, every item is a match whose slots are the
\* winners of its first and second feed, both entrants; with 9 entrants
\* round 2 has 4 matches filled from round-1 winners.
NextRoundFilledFromFeeds ==
    (tournament_started /\ ~tournament_finished /\ current_round_index >= 2) =>
        /\ [i \in ItemIndexes |-> current_round_items[i].match_id] =
               rounds_match_ids[current_round_index]
        /\ \A i \in ItemIndexes :
               LET item == current_round_items[i]
                   feed == next_round_feed[item.match_id]
               IN  /\ item.type = "match"
                   /\ item.teams = <<match_details[feed[1]].winner,
                                     match_details[feed[2]].winner>>
                   /\ match_details[item.match_id].teams = item.teams
                   /\ Range(item.teams) \subseteq Range(teams)
        /\ (Len(teams) = 9 /\ current_round_index = 2) =>
               /\ Len(current_round_items) = 4
               /\ \A i \in ItemIndexes :
                      Range(current_round_items[i].teams) \subseteq
                          {match_details[p].winner : p \in Range(rounds_match_ids[1])}

SecondRoundOfNine ==
    /\ tournament_started
    /\ Len(teams) = 9
    /\ current_round_index = 2
    /\ Len(current_round_items) = 4
    /\ \E i \in ItemIndexes :
           current_round_items[i].teams[1] =
               match_details[next_round_feed[current_round_items[i].match_id][1]].teams[2]

\* C17: a round transition out of round r leaves the feed mapping, the id
\* lists, the entrants, the sizes, the court count and the final id alone,
\* changes no winner outside round r and no slot outside round r + 1, and
\* alters no winner that was already recorded.
RoundIdSet(r) ==
    IF r \in DOMAIN rounds_match_ids THEN Range(rounds_match_ids[r]) ELSE {}

TransitionLeavesRestAlone ==
    [][(tournament_started /\ current_round_index' = current_round_index + 1) =>
          /\ UNCHANGED <<next_round_feed, rounds_match_ids, teams,
                         bracket_size, num_rounds, byes, num_courts,
                         final_match_id, tournament_started>>
          /\ DOMAIN match_details' = DOMAIN match_details
          /\ \A m \in DOMAIN match_details :
                 /\ m \notin RoundIdSet(current_round_index) =>
                        match_details'[m].winner = match_details[m].winner
                 /\ m \notin RoundIdSet(current_round_index + 1) =>
                        match_details'[m].teams = match_details[m].teams
                 /\ match_details[m].winner # None =>
                        match_details'[m].winner = match_details[m].winner]_vars

ThirdRoundAfterTwoTransitions ==
    /\ tournament_started
    /\ current_round_index = 3
    /\ \A m \in RoundIdSet(1) \cup RoundIdSet(2) : match_details[m].winner # None

\* C18: from Start to Reset the round pointer is in 1..num_rounds + 1, the
\* tournament is finished exactly when the pointer is num_rounds + 1, the
\* champion is unset until then, and Advance is not offered once finished.
RoundPointerTracksFinish ==
    tournament_started =>
        /\ current_round_index \in 1..(num_rounds + 1)
        /\ tournament_finished <=> current_round_index = num_rounds + 1
        /\ ~tournament_finished => final_winner = None
        /\ tournament_finished => ~ENABLED Advance

FinishedAfterFourRounds ==
    /\ tournament_finished
    /\ num_rounds = 4
    /\ current_round_index = 5
    /\ final_winner # None

\* C19: round 1 places every entrant in exactly one real slot: the first
\* byes entrants of the shuffled order in the bye records, the others paired
\* consecutively in the true matches; and no entrant holds two slots of a
\* later round.
SlotsOf(t, ids) ==
    {<<m, j>> \in ids \X {1, 2} : match_details[m].teams[j] = t}

RoundOnePartitionsEntrants ==
    tournament_started =>
        LET n  == Len(teams)
            r1 == rounds_match_ids[1]
            nm == (n - byes) \div 2
        IN  /\ Cardinality(Range(teams)) = n
            /\ Len(r1) = nm + byes
            /\ \A k \in 1..nm :
                   match_details[r1[k]].teams =
                       <<teams[byes + 2 * k - 1], teams[byes + 2 * k]>>
            /\ \A i \in 1..byes :
                   match_details[r1[nm + i]].teams = <<teams[i], BYE>>
            /\ \A t \in Range(teams) : Cardinality(SlotsOf(t, Range(r1))) = 1
            /\ \A r \in 2..num_rounds : \A t \in Range(teams) :
                   Cardinality(SlotsOf(t, Range(rounds_match_ids[r]))) <= 1

ByesCarriedIntoThirdRound ==
    /\ tournament_started
    /\ byes > 0
    /\ current_round_index >= 3
    /\ \E t \in Range(teams) : SlotsOf(t, Range(rounds_match_ids[2])) # {}
====
